---- MODULE Spec2Model ----
(***************************************************************************)
(* Model of review_optimize.py: the ProxyBundle analysis (unattached       *)
(* policies, sequential JavaScript steps), the cascading cleaner           *)
(* (clean_and_save) and the per-bundle rule loop of main().                *)
(*                                                                         *)
(* Strings are sequences of character codes (ASCII), so that sorting,      *)
(* str.strip, str.split, str.lower and Path.stem are computed as Python    *)
(* computes them.                                                          *)
(***************************************************************************)
EXTENDS Integers, Sequences, FiniteSets, TLC

VARIABLES
    src,        \* the bundle's source directory tree (self.source_dir)
    bundle,     \* the ProxyBundle object's cached fields (_all_policies, ...)
    parses,     \* how often ET.parse was applied to each source file
    result,     \* what the last analysis call returned
    out,        \* first clean_and_save: status, the copy's tree, counters
    again,      \* clean_and_save of a bundle built on the first copy
    run         \* the state of main()

vars == <<src, bundle, parses, result, out, again, run>>

----------------------------------------------------------------------------
(* Bounds of the model *)

\* longest Step list of a Request/Response path in the cleaner's bundles
MaxSteps == 2
\* longest Step list of a path in the sequence detector's bundles
MaxPathLen == 5
\* most calls of find_sequential_js_steps on one bundle object
MaxCalls == 2
\* most bundles of one run of main()
MaxBundles == 3

----------------------------------------------------------------------------
(* Strings *)

Min(a, b) == IF a < b THEN a ELSE b

\* the set of the elements of a sequence
Range(s) == {s[i] : i \in DOMAIN s}

\* Python's str < str: lexicographic by code point, a proper prefix is smaller
StrLess(s, t) ==
    \E i \in 1..(Min(Len(s), Len(t)) + 1) :
        /\ \A j \in 1..(i - 1) : s[j] = t[j]
        /\ \/ i > Len(s) /\ i <= Len(t)
           \/ i <= Len(s) /\ i <= Len(t) /\ s[i] < t[i]

\* the whitespace characters str.strip() removes: tab, newline, CR, space
IsSpace(c) == c \in {9, 10, 13, 32}

RECURSIVE LStrip(_)
LStrip(s) == IF s # <<>> /\ IsSpace(Head(s)) THEN LStrip(Tail(s)) ELSE s

RECURSIVE RStrip(_)
RStrip(s) ==
    IF s # <<>> /\ IsSpace(s[Len(s)]) THEN RStrip(SubSeq(s, 1, Len(s) - 1)) ELSE s

\* str.strip()
Strip(s) == RStrip(LStrip(s))

\* str.lower() on ASCII
Lower(s) == [i \in DOMAIN s |-> IF s[i] \in 65..90 THEN s[i] + 32 ELSE s[i]]

\* sep occurs in s at position i
OccursAt(s, sep, i) ==
    /\ i + Len(sep) - 1 <= Len(s)
    /\ \A j \in 1..Len(sep) : s[i + j - 1] = sep[j]

\* str.split(sep): the parts of s between the occurrences of sep, left to right
RECURSIVE Split(_, _)
Split(s, sep) ==
    LET hits == {i \in 1..Len(s) : OccursAt(s, sep, i)}
    IN  IF hits = {} THEN <<s>>
        ELSE LET i == CHOOSE h \in hits : \A g \in hits : h <= g
             IN  <<SubSeq(s, 1, i - 1)>> \o Split(SubSeq(s, i + Len(sep), Len(s)), sep)

EndsWith(s, suffix) ==
    /\ Len(suffix) <= Len(s)
    /\ SubSeq(s, Len(s) - Len(suffix) + 1, Len(s)) = suffix

\* ".xml"
DotXml == <<46, 120, 109, 108>>

\* "://"
SchemeSep == <<58, 47, 47>>

\* Path.glob('*.xml') over the file names of one directory
GlobXml(names) == {f \in names : EndsWith(f, DotXml)}

\* Path.glob('*.*') over the file names of one directory
GlobAnyDot(names) == {f \in names : 46 \in Range(f)}

\* Path.stem: the file name without its last suffix
Stem(f) ==
    LET dots == {i \in 2..Len(f) : f[i] = 46}
    IN  IF dots = {} \/ f[Len(f)] = 46 THEN f
        ELSE SubSeq(f, 1, (CHOOSE d \in dots : \A e \in dots : e <= d) - 1)

\* sorted(...) of a set of strings (or of Path objects of one directory)
RECURSIVE Sorted(_)
Sorted(S) ==
    IF S = {} THEN <<>>
    ELSE LET m == CHOOSE x \in S : \A y \in S \ {x} : StrLess(x, y)
         IN  <<m>> \o Sorted(S \ {m})

----------------------------------------------------------------------------
(* Documents and directory trees *)

\* a child element that may be missing, with its text ("" also stands for None)
NoElem == [elem |-> FALSE, text |-> <<>>]
Elem(t) == [elem |-> TRUE, text |-> t]

\* <Step><Name>t</Name>[<Condition/>]</Step>
Step(n, c) == [name |-> n, cond |-> c]

\* a Request or Response path that may be missing, with its Step children
NoPath == [elem |-> FALSE, steps |-> <<>>]
Path(steps) == [elem |-> TRUE, steps |-> steps]

\* a PreFlow, PostFlow or Flow element with its name attribute ("" when none)
Container(tag, name, req, resp) ==
    [tag |-> tag, name |-> name, Request |-> req, Response |-> resp]

\* a document holding containers; ok = FALSE when ET.parse raises ParseError
FlowDoc(flows) == [ok |-> TRUE, flows |-> flows]
BadFlowDoc == [ok |-> FALSE, flows |-> <<>>]

\* a policy document: its root tag and its ResourceURL child
PolicyDoc(tag, url) == [ok |-> TRUE, tag |-> tag, url |-> url]
BadPolicyDoc == [ok |-> FALSE, tag |-> <<>>, url |-> NoElem]

\* a section of a manifest that may be missing, with the texts of its items
NoSection == [elem |-> FALSE, items |-> <<>>]
Section(items) == [elem |-> TRUE, items |-> items]

\* a root manifest document with its Policies and Resources sections
ManifestDoc(pol, res) == [ok |-> TRUE, Policies |-> pol, Resources |-> res]
BadManifestDoc == [ok |-> FALSE, Policies |-> NoSection, Resources |-> NoSection]

\* a bundle's directory tree: policies/, proxies/, targets/, another directory
\* with XML documents, the root's XML documents (file name -> document), and
\* the files under resources/ (<<type directory, file name>>)
Tree(pol, prox, targ, extra, root, res) ==
    [policies |-> pol, proxies |-> prox, targets |-> targ, extras |-> extra,
     root |-> root, resources |-> res]

EmptyFn == [x \in {} |-> x]
EmptyTree == Tree(EmptyFn, EmptyFn, EmptyFn, EmptyFn, EmptyFn, {})

\* all functions from a subset of D to R: the possible contents of a directory
Partial(D, R) == UNION {[S -> R] : S \in SUBSET D}

\* all sequences over S of length at most n
SeqUpTo(S, n) == UNION {[1..k -> S] : k \in 0..n}

\* the sequences that enumerate the set S once each (the orders of a glob)
Orders(S) ==
    {o \in [1..Cardinality(S) -> S] : \A i, j \in DOMAIN o : o[i] = o[j] => i = j}

----------------------------------------------------------------------------
(* ProxyBundle: analysis *)

\* all_policies
all_policies(fs) == {Stem(f) : f \in GlobXml(DOMAIN fs.policies)}

\* root.findall('.//Step') of an endpoint document, in document order
RECURSIVE AllSteps(_)
AllSteps(flows) ==
    IF flows = <<>> THEN <<>>
    ELSE Head(flows).Request.steps \o Head(flows).Response.steps \o AllSteps(Tail(flows))

\* a variant that adds name.text as it is
ReferencedIn_unstripped(doc) ==
    LET steps == AllSteps(doc.flows)
    IN  {steps[i].name.text :
            i \in {j \in DOMAIN steps : steps[j].name.elem /\ steps[j].name.text # <<>>}}

\* the names one parsed endpoint document adds to referenced
ReferencedIn(doc) ==
    LET steps == AllSteps(doc.flows)
    IN  {Strip(steps[i].name.text) :
            i \in {j \in DOMAIN steps : steps[j].name.elem /\ steps[j].name.text # <<>>}}

\* the loop body of _get_referenced_policy_names over the files of one
\* directory in the order the glob yields them
RECURSIVE ReferencedFold(_, _, _)
ReferencedFold(dir, order, referenced) ==
    IF order = <<>> THEN referenced
    ELSE LET doc == dir[Head(order)]
         IN  ReferencedFold(dir, Tail(order),
                 IF doc.ok THEN referenced \cup ReferencedIn(doc) ELSE referenced)

\* _get_referenced_policy_names: proxies/ first, then targets/
get_referenced_policy_names(fs, po, to) ==
    ReferencedFold(fs.targets, to, ReferencedFold(fs.proxies, po, {}))

\* unattached_policies, computed from the two sets
unattached_of(all, referenced) == Sorted(all \ referenced)

\* "javascript"
JavascriptTag == <<106, 97, 118, 97, 115, 99, 114, 105, 112, 116>>

\* "javacallout"
JavacalloutTag == <<106, 97, 118, 97, 99, 97, 108, 108, 111, 117, 116>>

\* a variant that adds the file's name when the file fails to parse
IsJavascript_or_unparsed(doc) == ~doc.ok \/ Lower(doc.tag) = JavascriptTag

\* what one policy file adds to js_names
IsJavascript(doc) == doc.ok /\ Lower(doc.tag) = JavascriptTag

\* _get_javascript_policy_names
get_javascript_policy_names(fs) ==
    {Stem(f) : f \in {g \in GlobXml(DOMAIN fs.policies) : IsJavascript(fs.policies[g])}}

\* is_valid of find_sequential_js_steps
is_valid(step, js_names) ==
    /\ step.name.elem
    /\ step.name.text # <<>>
    /\ Strip(step.name.text) \in js_names
    /\ ~step.cond

\* a variant without the flush after the loop
RECURSIVE ScanSteps_noflush(_, _, _, _)
ScanSteps_noflush(steps, js_names, seq, found) ==
    IF steps = <<>>
    THEN found
    ELSE IF is_valid(Head(steps), js_names)
         THEN ScanSteps_noflush(Tail(steps), js_names,
                                Append(seq, Strip(Head(steps).name.text)), found)
         ELSE ScanSteps_noflush(Tail(steps), js_names, <<>>,
                                IF Len(seq) > 1 THEN Append(found, seq) ELSE found)

\* the loop over the Step children of one path: seq is the pending run,
\* found the runs emitted so far
RECURSIVE ScanSteps(_, _, _, _)
ScanSteps(steps, js_names, seq, found) ==
    IF steps = <<>>
    THEN IF Len(seq) > 1 THEN Append(found, seq) ELSE found
    ELSE IF is_valid(Head(steps), js_names)
         THEN ScanSteps(Tail(steps), js_names,
                        Append(seq, Strip(Head(steps).name.text)), found)
         ELSE ScanSteps(Tail(steps), js_names, <<>>,
                        IF Len(seq) > 1 THEN Append(found, seq) ELSE found)

\* the records of one path: file, location (container and path tag), sequence
PathRecords(file, c, tag, path, js_names) ==
    IF ~path.elem THEN <<>>
    ELSE LET runs == ScanSteps(path.steps, js_names, <<>>, <<>>)
         IN  [i \in DOMAIN runs |->
                [file |-> file,
                 location |-> <<c.tag, IF c.tag = "Flow" THEN c.name ELSE "", tag>>,
                 sequence |-> runs[i]]]

\* findall('.//PreFlow') + findall('.//PostFlow') + findall('.//Flow')
ContainersOf(flows) ==
    SelectSeq(flows, LAMBDA c : c.tag = "PreFlow")
        \o SelectSeq(flows, LAMBDA c : c.tag = "PostFlow")
        \o SelectSeq(flows, LAMBDA c : c.tag = "Flow")

RECURSIVE ContainerRecords(_, _, _)
ContainerRecords(file, cs, js_names) ==
    IF cs = <<>> THEN <<>>
    ELSE PathRecords(file, Head(cs), "Request", Head(cs).Request, js_names)
            \o PathRecords(file, Head(cs), "Response", Head(cs).Response, js_names)
            \o ContainerRecords(file, Tail(cs), js_names)

\* the loop of find_sequential_js_steps over the files of one directory
RECURSIVE SequencesFold(_, _, _)
SequencesFold(dir, order, js_names) ==
    IF order = <<>> THEN <<>>
    ELSE LET doc == dir[Head(order)]
         IN  (IF doc.ok
              THEN ContainerRecords(Head(order), ContainersOf(doc.flows), js_names)
              ELSE <<>>)
             \o SequencesFold(dir, Tail(order), js_names)

\* find_sequential_js_steps: proxies/ files, then targets/ files
find_sequential_js_steps(fs, js_names, po, to) ==
    SequencesFold(fs.proxies, po, js_names) \o SequencesFold(fs.targets, to, js_names)

----------------------------------------------------------------------------
(* ProxyBundle: the cascading cleaner *)

\* _get_resource_url_from_policy_file on a file of the copy ("" for None)
get_resource_url_from_policy_file(fs, file) ==
    IF file \notin DOMAIN fs.policies THEN <<>>
    ELSE LET doc == fs.policies[file]
         IN  IF doc.ok /\ Lower(doc.tag) \in {JavascriptTag, JavacalloutTag} /\ doc.url.elem
             THEN doc.url.text
             ELSE <<>>

\* a directory without one of its files
Without(dir, file) == [f \in DOMAIN dir \ {file} |-> dir[f]]

\* the body of the loop of clean_and_save for one unattached policy: st is
\* the copy, whether an exception left the loop, and the files unlinked
RemoveUnit(st, policy_name) ==
    LET policy_file == policy_name \o DotXml
        resource_url == get_resource_url_from_policy_file(st.fs, policy_file)
        unlinked == IF policy_file \in DOMAIN st.fs.policies THEN 1 ELSE 0
        fs1 == [st.fs EXCEPT !.policies = Without(@, policy_file)]
        parts == Split(resource_url, SchemeSep)
    IN  IF resource_url = <<>>
        THEN [fs |-> fs1, raised |-> FALSE, deleted |-> st.deleted + unlinked]
        ELSE IF Len(parts) # 2
        THEN \* scheme, filename = resource_url.split('://') raises ValueError
             [fs |-> fs1, raised |-> TRUE, deleted |-> st.deleted + unlinked]
        ELSE LET res_file == <<parts[1], parts[2]>>
             IN  IF res_file \in fs1.resources
                 THEN [fs |-> [fs1 EXCEPT !.resources = @ \ {res_file}],
                       raised |-> FALSE, deleted |-> st.deleted + unlinked + 1]
                 ELSE [fs |-> fs1, raised |-> FALSE, deleted |-> st.deleted + unlinked]

\* for policy_name in self.unattached_policies: ...
RECURSIVE RemoveUnits(_, _)
RemoveUnits(st, names) ==
    IF names = <<>> \/ st.raised THEN st
    ELSE RemoveUnits(RemoveUnit(st, Head(names)), Tail(names))

\* the Steps of one parent that _remove_orphaned_steps removes
IsOrphan(step, remaining) ==
    /\ step.name.elem
    /\ step.name.text # <<>>
    /\ Strip(step.name.text) \notin remaining

\* one Step parent after the removal of its orphaned Step children
StripPath(path, remaining) ==
    [path EXCEPT !.steps = SelectSeq(@, LAMBDA step : ~IsOrphan(step, remaining))]

\* one document after _remove_orphaned_steps; one that fails to parse is kept
StripDoc(doc, remaining) ==
    IF ~doc.ok THEN doc
    ELSE [doc EXCEPT !.flows =
            [i \in DOMAIN @ |->
                [@[i] EXCEPT !.Request = StripPath(@, remaining),
                             !.Response = StripPath(@, remaining)]]]

StripDir(dir, remaining) == [f \in DOMAIN dir |-> StripDoc(dir[f], remaining)]

\* the number of Step elements of the documents files of a directory
RECURSIVE StepCountOf(_, _)
StepCountOf(dir, files) ==
    IF files = {} THEN 0
    ELSE LET f == CHOOSE g \in files : TRUE
         IN  Len(AllSteps(dir[f].flows)) + StepCountOf(dir, files \ {f})

StepCount(dir) == StepCountOf(dir, DOMAIN dir)

\* a variant that walks the endpoint directories only
remove_orphaned_steps_endpoints(fs) ==
    LET remaining == {Stem(f) : f \in GlobXml(DOMAIN fs.policies)}
    IN  [fs EXCEPT !.proxies = StripDir(@, remaining),
                   !.targets = StripDir(@, remaining)]

\* _remove_orphaned_steps over cleaned_proxy_dir.rglob('*.xml'): the
\* documents of policies/ and of the root hold no Step element
remove_orphaned_steps(fs) ==
    LET remaining == {Stem(f) : f \in GlobXml(DOMAIN fs.policies)}
    IN  [fs EXCEPT !.proxies = StripDir(@, remaining),
                   !.targets = StripDir(@, remaining),
                   !.extras = StripDir(@, remaining)]

\* the resource types of _sync_manifest, in its order:
\* jsc, java, py, xsl, wsdl, properties
ResTypes ==
    << <<106, 115, 99>>, <<106, 97, 118, 97>>, <<112, 121>>, <<120, 115, 108>>,
       <<119, 115, 100, 108>>, <<112, 114, 111, 112, 101, 114, 116, 105, 101, 115>> >>

\* the names of the files of resources/<res_type>
ResDir(fs, res_type) == {r[2] : r \in {q \in fs.resources : q[1] = res_type}}

\* the Resource entries of the types from the i-th on
RECURSIVE ResourceItems(_, _)
ResourceItems(fs, i) ==
    IF i > Len(ResTypes) THEN <<>>
    ELSE LET names == Sorted(GlobAnyDot(ResDir(fs, ResTypes[i])))
         IN  [k \in DOMAIN names |-> ResTypes[i] \o SchemeSep \o names[k]]
                \o ResourceItems(fs, i + 1)

\* [p.stem for p in sorted((cleaned_proxy_dir / 'policies').glob('*.xml'))]
PolicyItems(fs) ==
    LET files == Sorted(GlobXml(DOMAIN fs.policies))
    IN  [k \in DOMAIN files |-> Stem(files[k])]

\* a variant that keeps the section's children
update_manifest_section_append(section, items) == Section(section.items \o items)

\* _update_manifest_section: the section is created when missing, its
\* children are removed and one child per item is appended
update_manifest_section(section, items) == Section(items)

\* _sync_manifest for one root document; one that fails to parse is kept
SyncDoc(doc, fs) ==
    IF ~doc.ok THEN doc
    ELSE [doc EXCEPT !.Policies = update_manifest_section(@, PolicyItems(fs)),
                     !.Resources = update_manifest_section(@, ResourceItems(fs, 1))]

\* _sync_manifest
sync_manifest(fs) ==
    [fs EXCEPT !.root =
        [f \in DOMAIN @ |-> IF f \in GlobXml(DOMAIN @) THEN SyncDoc(@[f], fs) ELSE @[f]]]

\* clean_and_save after the copy was made: what it leaves in the copy and
\* whether it returned
clean_and_save(source, unattached) ==
    LET st == RemoveUnits([fs |-> source, raised |-> FALSE, deleted |-> 0], unattached)
        stripped == remove_orphaned_steps(st.fs)
        steps(fs) == StepCount(fs.proxies) + StepCount(fs.targets) + StepCount(fs.extras)
    IN  IF st.raised
        THEN [status |-> "raised", fs |-> st.fs, units |-> unattached,
              deleted |-> st.deleted, removed |-> 0]
        ELSE [status |-> "returned", fs |-> sync_manifest(stripped), units |-> unattached,
              deleted |-> st.deleted, removed |-> steps(st.fs) - steps(stripped)]

----------------------------------------------------------------------------
(* The ProxyBundle object and its cached properties *)

None == [some |-> FALSE, val |-> <<>>]
Some(v) == [some |-> TRUE, val |-> v]

\* __init__: the four cached fields are None
NewBundle == [all |-> None, referenced |-> None, unattached |-> None, javascript |-> None]

\* the XML files of the source tree that the analysis parses
PolicyIds(fs) == {<<"policies", f>> : f \in GlobXml(DOMAIN fs.policies)}
EndpointIds(fs) ==
    {<<"proxies", f>> : f \in GlobXml(DOMAIN fs.proxies)}
        \cup {<<"targets", f>> : f \in GlobXml(DOMAIN fs.targets)}

\* the counters after one more ET.parse of each of the files ids
Parsed(counts, ids) == [f \in DOMAIN counts |-> counts[f] + IF f \in ids THEN 1 ELSE 0]

\* the object and the counters after self.all_policies
WithAll(st, fs) ==
    IF st.b.all.some THEN st
    ELSE [st EXCEPT !.b.all = Some(all_policies(fs))]

\* ... after self.referenced_policies
WithReferenced(st, fs, po, to) ==
    IF st.b.referenced.some THEN st
    ELSE [b |-> [st.b EXCEPT !.referenced = Some(get_referenced_policy_names(fs, po, to))],
          n |-> Parsed(st.n, EndpointIds(fs))]

\* ... after self.unattached_policies
WithUnattached(st, fs, po, to) ==
    IF st.b.unattached.some THEN st
    ELSE LET s2 == WithReferenced(WithAll(st, fs), fs, po, to)
         IN  [s2 EXCEPT !.b.unattached = Some(unattached_of(s2.b.all.val, s2.b.referenced.val))]

\* ... after self.javascript_policies
WithJavascript(st, fs) ==
    IF st.b.javascript.some THEN st
    ELSE [b |-> [st.b EXCEPT !.javascript = Some(get_javascript_policy_names(fs))],
          n |-> Parsed(st.n, PolicyIds(fs))]

----------------------------------------------------------------------------
(* The bundles the model runs on *)

NameA == <<97>>                 \* "a"
NameAB == <<97, 45, 98>>        \* "a-b"
NameB == <<98>>                 \* "b"
NameQ == <<113>>                \* "q", no policy file has this name

File(name) == name \o DotXml

PolicyFiles == {File(NameA), File(NameAB), File(NameB)}

DefaultXml == File(<<100>>)     \* "d.xml"
SecondXml == File(<<101>>)      \* "e.xml"

TagJavascript == <<74, 97, 118, 97, 115, 99, 114, 105, 112, 116>>       \* "Javascript"
TagJavaCallout == <<74, 97, 118, 97, 67, 97, 108, 108, 111, 117, 116>>  \* "JavaCallout"
TagQuota == <<81, 117, 111, 116, 97>>                                   \* "Quota"

Jsc == ResTypes[1]
Java == ResTypes[2]
FileXJs == <<120, 46, 106, 115>>            \* "x.js"
FileYJar == <<121, 46, 106, 97, 114>>       \* "y.jar"
FileReadme == <<82, 69, 65, 68, 77, 69>>    \* "README"
FileOldJs == <<111, 46, 106, 115>>          \* "o.js"

Url(scheme, file) == scheme \o SchemeSep \o file

Padded(name) == <<32>> \o name \o <<32>>

\* policy documents: one that does not parse, Javascript with a link, with a
\* link without "://", JavaCallout with a link, another kind with a link
CleanPolicyDocs ==
    {BadPolicyDoc,
     PolicyDoc(TagJavascript, Elem(Url(Jsc, FileXJs))),
     PolicyDoc(TagJavascript, Elem(FileXJs)),
     PolicyDoc(TagJavaCallout, Elem(Url(Java, FileYJar))),
     PolicyDoc(TagQuota, Elem(Url(Jsc, FileXJs)))}

\* the Steps of the cleaner's bundles: a, " a-b ", q, no Name
CleanSteps ==
    {Step(Elem(NameA), FALSE), Step(Elem(Padded(NameAB)), FALSE),
     Step(Elem(NameQ), FALSE), Step(NoElem, FALSE)}

\* proxies/d.xml: a PreFlow whose Request holds the Steps p, or unparsable
ProxyDoc(p, parses_ok) ==
    IF parses_ok THEN FlowDoc(<<Container("PreFlow", "", Path(p), NoPath)>>) ELSE BadFlowDoc

TargetDoc == FlowDoc(<<Container("PostFlow", "", NoPath, Path(<<Step(Elem(NameB), TRUE)>>))>>)

ExtraDoc ==
    FlowDoc(<<Container("Flow", "f",
                 Path(<<Step(Elem(NameAB), FALSE), Step(Elem(<<32>>), FALSE),
                        Step(Elem(NameQ), FALSE)>>), NoPath)>>)

\* targets/ and the other directory: both empty, targets/d.xml, both
CleanOtherDirs ==
    {<<EmptyFn, EmptyFn>>,
     <<[f \in {DefaultXml} |-> TargetDoc], EmptyFn>>,
     <<[f \in {DefaultXml} |-> TargetDoc], [f \in {DefaultXml} |-> ExtraDoc]>>}

StaleManifest ==
    ManifestDoc(Section(<<NameQ, NameA>>), Section(<<Url(Jsc, FileOldJs)>>))

\* the root manifest and the files under resources/
CleanDisks ==
    {<<BadManifestDoc, {}>>,
     <<ManifestDoc(NoSection, NoSection), {<<Jsc, FileXJs>>}>>,
     <<StaleManifest, {<<Jsc, FileXJs>>, <<Java, FileYJar>>, <<Jsc, FileReadme>>}>>}

\* the bundle of the cleaner with these directories
CleanBundle(pol, prox, o, d) ==
    Tree(pol, [f \in {DefaultXml} |-> prox], o[1], o[2], [f \in {DefaultXml} |-> d[1]], d[2])

----------------------------------------------------------------------------
(* The cleaner's state machine *)

NoClean == [status |-> "none", fs |-> EmptyTree, units |-> <<>>, deleted |-> 0, removed |-> 0]
NoResult == [calls |-> 0, sequences |-> <<>>, report |-> None]
NoRun == [pc |-> "off"]

ZeroCounts(fs) == [f \in PolicyIds(fs) \cup EndpointIds(fs) |-> 0]

Init ==
    /\ \E pol \in Partial(PolicyFiles, CleanPolicyDocs), k \in 0..MaxSteps,
          o \in CleanOtherDirs, d \in CleanDisks :
        \E p \in [1..k -> CleanSteps], parses_ok \in BOOLEAN :
            /\ parses_ok \/ k = 0
            /\ src = CleanBundle(pol, ProxyDoc(p, parses_ok), o, d)
    /\ bundle = NewBundle
    /\ parses = ZeroCounts(src)
    /\ result = NoResult
    /\ out = NoClean
    /\ again = NoClean
    /\ run = NoRun

\* clean_and_save(OUTPUT_PROXIES_DIR) on the bundle of the source tree
CleanAndSave ==
    /\ out.status = "none"
    /\ \E po \in Orders(GlobXml(DOMAIN src.proxies)), to \in Orders(GlobXml(DOMAIN src.targets)) :
        LET st == WithUnattached([b |-> bundle, n |-> parses], src, po, to)
        IN  /\ bundle' = st.b
            /\ parses' = st.n
            /\ out' = clean_and_save(src, st.b.unattached.val)
    /\ UNCHANGED <<src, result, again, run>>

\* clean_and_save when shutil.rmtree or shutil.copytree raises
CleanCopyFails ==
    /\ out.status = "none"
    /\ out' = [NoClean EXCEPT !.status = "raised"]
    /\ UNCHANGED <<src, bundle, parses, result, again, run>>

\* clean_and_save of a new ProxyBundle whose source_dir is the cleaned copy
CleanAgain ==
    /\ out.status = "returned"
    /\ again.status = "none"
    /\ \E po \in Orders(GlobXml(DOMAIN out.fs.proxies)), to \in Orders(GlobXml(DOMAIN out.fs.targets)) :
        LET st == WithUnattached([b |-> NewBundle, n |-> ZeroCounts(out.fs)], out.fs, po, to)
        IN  again' = clean_and_save(out.fs, st.b.unattached.val)
    /\ UNCHANGED <<src, bundle, parses, result, out, run>>

Next == CleanAndSave \/ CleanCopyFails \/ CleanAgain

Spec == Init /\ [][Next]_vars

----------------------------------------------------------------------------
(* Claims about the cleaner *)

StepsIn(dir) == UNION {Range(AllSteps(dir[f].flows)) : f \in DOMAIN dir}

DocSteps(fs) == StepsIn(fs.proxies) \cup StepsIn(fs.targets) \cup StepsIn(fs.extras)

UnitsOnDisk(fs) == {Stem(f) : f \in DOMAIN fs.policies}

Manifests(fs) == {fs.root[f] : f \in {g \in DOMAIN fs.root : fs.root[g].ok}}

\* a sequence of strings in ascending order
IsSorted(items) == \A i, j \in DOMAIN items : i < j => StrLess(items[i], items[j])

\* C2: after clean_and_save returns, every Step of every document of the
\* copy that names a unit names one whose file is still in the copy's
\* policies directory.
C2_NoDanglingStep ==
    out.status = "returned" =>
        \A step \in DocSteps(out.fs) :
            (step.name.elem /\ step.name.text # <<>>) =>
                Strip(step.name.text) \in UnitsOnDisk(out.fs)

\* C2 witness: a clean that unlinked a unit, removed a Step of a document
\* outside the endpoint directories and left a Step that names a unit.
C2_Witness ==
    /\ out.status = "returned"
    /\ out.deleted > 0
    /\ Cardinality(StepsIn(out.fs.extras)) < Cardinality(StepsIn(src.extras))
    /\ \E step \in DocSteps(out.fs) : step.name.text # <<>>

\* C3: after clean_and_save returns, no unattached unit has a file in the
\* copy's policies directory and each root manifest's Policies section holds
\* exactly the base names of the unit files of the copy, sorted.
C3_ManifestListsUnits ==
    out.status = "returned" =>
        /\ \A i \in DOMAIN out.units : File(out.units[i]) \notin DOMAIN out.fs.policies
        /\ \A m \in Manifests(out.fs) :
            /\ Range(m.Policies.items) = UnitsOnDisk(out.fs)
            /\ Len(m.Policies.items) = Cardinality(UnitsOnDisk(out.fs))
            /\ IsSorted(m.Policies.items)

\* C4: after the resynchronisation each root manifest's Resources section
\* holds exactly one scheme://filename entry per resource file of the copy,
\* sorted by name.
C4_ManifestMirrorsResources ==
    out.status = "returned" =>
        \A m \in Manifests(out.fs) :
            /\ Range(m.Resources.items) = {Url(r[1], r[2]) : r \in out.fs.resources}
            /\ Len(m.Resources.items) = Cardinality(out.fs.resources)
            /\ IsSorted(m.Resources.items)

\* the unit's document in the source carries a resource link that does not
\* split on "://" into exactly two parts
HasMalformedLink(fs, name) ==
    LET url == get_resource_url_from_policy_file(fs, File(name))
    IN  url # <<>> /\ Len(Split(url, SchemeSep)) # 2

\* C5: when an unattached unit's resource link does not split into two
\* parts, clean_and_save raises nothing and still removes every unattached
\* unit, strips the orphaned Steps and resynchronises the manifests.
C5_MalformedLinkSkipped ==
    (out.status # "none" /\ \E i \in DOMAIN out.units : HasMalformedLink(src, out.units[i])) =>
        /\ out.status = "returned"
        /\ \A i \in DOMAIN out.units : File(out.units[i]) \notin DOMAIN out.fs.policies
        /\ \A step \in DocSteps(out.fs) :
            step.name.text # <<>> => Strip(step.name.text) \in UnitsOnDisk(out.fs)
        /\ \A m \in Manifests(out.fs) : Range(m.Policies.items) = UnitsOnDisk(out.fs)

\* C8: clean_and_save on the output of a clean finds no unattached unit,
\* unlinks no file, removes no Step and leaves every document, the
\* manifests' sections included, as it was.
C8_CleanIdempotent ==
    again.status # "none" =>
        /\ again.status = "returned"
        /\ again.units = <<>>
        /\ again.deleted = 0
        /\ again.removed = 0
        /\ again.fs = out.fs

\* C8 witness: the second clean ran on the output of a clean that unlinked
\* files, removed Steps and rewrote a manifest.
C8_Witness ==
    /\ again.status = "returned"
    /\ out.deleted > 1
    /\ out.removed > 1
    /\ \E f \in DOMAIN out.fs.root : out.fs.root[f].ok /\ out.fs.root[f] # src.root[f]

\* the resource files that the units of a tree link to: the unit's kind is
\* resource-bearing and its link splits into a scheme and a file name
LinkedResources(fs) ==
    {<<Split(url, SchemeSep)[1], Split(url, SchemeSep)[2]>> :
        url \in {u \in {get_resource_url_from_policy_file(fs, f) : f \in DOMAIN fs.policies} :
                    u # <<>> /\ Len(Split(u, SchemeSep)) = 2}}

\* C11: clean_and_save deletes no resource file that a unit left in the
\* copy links to: each such file of the source bundle is still in the copy,
\* also when an unattached unit declared the same link.
C11_LinkedResourceKept ==
    out.status = "returned" =>
        \A r \in LinkedResources(out.fs) : r \in src.resources => r \in out.fs.resources

----------------------------------------------------------------------------
(* The analysis operations on one bundle object *)

\* policy documents of the analysed bundles: unparsable, Javascript
AnalysisPolicyDocs == {BadPolicyDoc, PolicyDoc(TagJavascript, NoElem)}

\* the Steps of the analysed bundles: a, " a-b ", q, " ", no Name
AnalysisSteps ==
    {Step(Elem(NameA), FALSE), Step(Elem(Padded(NameAB)), FALSE),
     Step(Elem(NameQ), FALSE), Step(Elem(<<32>>), FALSE), Step(NoElem, FALSE)}

SecondDoc ==
    FlowDoc(<<Container("Flow", "f", NoPath,
                 Path(<<Step(Elem(NameQ), FALSE), Step(Elem(NameAB), FALSE)>>))>>)

\* proxies/e.xml and targets/d.xml: neither, the first, both
AnalysisOtherDocs ==
    {<<EmptyFn, EmptyFn>>,
     <<[f \in {SecondXml} |-> SecondDoc], EmptyFn>>,
     <<[f \in {SecondXml} |-> SecondDoc], [f \in {DefaultXml} |-> TargetDoc]>>}

\* the analysed bundle with these directories
AnalysisBundle(pol, prox, o) ==
    Tree(pol, [f \in {DefaultXml} |-> prox] @@ o[1], o[2], EmptyFn, EmptyFn, {})

InitAnalysis ==
    /\ \E pol \in Partial(PolicyFiles, AnalysisPolicyDocs), k \in 0..MaxSteps,
          o \in AnalysisOtherDocs :
        \E p \in [1..k -> AnalysisSteps], parses_ok \in BOOLEAN :
            /\ parses_ok \/ k = 0
            /\ src = AnalysisBundle(pol, ProxyDoc(p, parses_ok), o)
    /\ bundle = NewBundle
    /\ parses = ZeroCounts(src)
    /\ result = NoResult
    /\ out = NoClean
    /\ again = NoClean
    /\ run = NoRun

\* proxy.unattached_policies
GetUnattachedPolicies ==
    /\ \E po \in Orders(GlobXml(DOMAIN src.proxies)), to \in Orders(GlobXml(DOMAIN src.targets)) :
        LET st == WithUnattached([b |-> bundle, n |-> parses], src, po, to)
        IN  bundle' = st.b /\ parses' = st.n
    /\ UNCHANGED <<src, result, out, again, run>>

\* proxy.javascript_policies
GetJavascriptPolicies ==
    /\ LET st == WithJavascript([b |-> bundle, n |-> parses], src)
       IN  bundle' = st.b /\ parses' = st.n
    /\ UNCHANGED <<src, result, out, again, run>>

\* proxy.find_sequential_js_steps()
FindSequentialJsSteps ==
    /\ result.calls < MaxCalls
    /\ \E po \in Orders(GlobXml(DOMAIN src.proxies)), to \in Orders(GlobXml(DOMAIN src.targets)) :
        LET st == WithJavascript([b |-> bundle, n |-> parses], src)
        IN  /\ bundle' = st.b
            /\ parses' = Parsed(st.n, EndpointIds(src))
            /\ result' = [result EXCEPT
                            !.calls = @ + 1,
                            !.sequences = find_sequential_js_steps(src, st.b.javascript.val, po, to)]
    /\ UNCHANGED <<src, out, again, run>>

\* proxy.generate_report_text(): the names it lists
GenerateReportText ==
    /\ \E po \in Orders(GlobXml(DOMAIN src.proxies)), to \in Orders(GlobXml(DOMAIN src.targets)) :
        LET st == WithUnattached([b |-> bundle, n |-> parses], src, po, to)
        IN  /\ bundle' = st.b
            /\ parses' = st.n
            /\ result' = [result EXCEPT !.report = Some(st.b.unattached.val)]
    /\ UNCHANGED <<src, out, again, run>>

NextAnalysis ==
    GetUnattachedPolicies \/ GetJavascriptPolicies \/ FindSequentialJsSteps \/ GenerateReportText

SpecAnalysis == InitAnalysis /\ [][NextAnalysis]_vars

----------------------------------------------------------------------------
(* Claims about the analysis *)

\* the trimmed, non-empty Name texts of the Steps of the parsable documents
\* of the endpoint directories
TrimmedStepNames(fs) ==
    {Strip(step.name.text) : step \in StepsIn(fs.proxies) \cup StepsIn(fs.targets)} \ {<<>>}

\* C1: unattached_policies is the name-sorted list of the base names of the
\* policy files minus the trimmed, non-empty Step/Name texts of the parsable
\* endpoint documents, whatever the order in which the documents are read.
C1_UnattachedIsDifference ==
    bundle.unattached.some =>
        /\ Range(bundle.unattached.val) = UnitsOnDisk(src) \ TrimmedStepNames(src)
        /\ IsSorted(bundle.unattached.val)

\* C1 witness: unattached_policies computed for a bundle with two parsable
\* proxy endpoint documents, a referenced unit and two unattached ones.
C1_Witness ==
    /\ bundle.unattached.some
    /\ Len(bundle.unattached.val) = 2
    /\ Cardinality({f \in DOMAIN src.proxies : src.proxies[f].ok}) = 2
    /\ UnitsOnDisk(src) \cap TrimmedStepNames(src) # {}
    /\ \E step \in StepsIn(src.proxies) : step.name.text = Padded(NameAB)

\* C9: each XML file of the source bundle is parsed at most once over the
\* life of the bundle object.
C9_ParsedAtMostOnce == \A f \in DOMAIN parses : parses[f] <= 1

UnparsedUnits(fs) == {Stem(f) : f \in {g \in DOMAIN fs.policies : ~fs.policies[g].ok}}

\* C10: a unit whose document fails to parse is in all_policies, is listed
\* unattached when no Step names it, is not in javascript_policies and is in
\* no Sequence; every analysis operation still produces its result.
C10_UnparsedUnit ==
    \A u \in UnparsedUnits(src) :
        /\ bundle.all.some => u \in bundle.all.val
        /\ (bundle.unattached.some /\ u \notin TrimmedStepNames(src)) =>
                u \in Range(bundle.unattached.val)
        /\ bundle.javascript.some => u \notin bundle.javascript.val
        /\ result.calls > 0 =>
            /\ bundle.javascript.some
            /\ \A i \in DOMAIN result.sequences : u \notin Range(result.sequences[i].sequence)

\* C10 witness: the detector ran on a path whose two unconditioned Steps
\* name a Javascript unit and a unit whose document fails to parse, and the
\* unattached list holds an unparsable unit.
C10_Witness ==
    /\ result.calls > 0
    /\ bundle.unattached.some
    /\ \E u \in UnparsedUnits(src) : u \in Range(bundle.unattached.val)
    /\ NameA \in bundle.javascript.val
    /\ NameAB \in UnparsedUnits(src)
    /\ src.proxies[DefaultXml].ok
    /\ src.proxies[DefaultXml].flows[1].Request.steps =
            <<Step(Elem(NameA), FALSE), Step(Elem(Padded(NameAB)), FALSE)>>

----------------------------------------------------------------------------
(* The sequence detector on longer paths *)

\* a and a-b are Javascript units and b is of another kind; or a-b does not
\* parse and b is a Javascript unit
SeqPolicies ==
    {(File(NameA) :> PolicyDoc(TagJavascript, NoElem))
        @@ (File(NameAB) :> PolicyDoc(TagJavascript, NoElem))
        @@ (File(NameB) :> PolicyDoc(TagQuota, NoElem)),
     (File(NameA) :> PolicyDoc(TagJavascript, NoElem))
        @@ (File(NameAB) :> BadPolicyDoc)
        @@ (File(NameB) :> PolicyDoc(TagJavascript, NoElem))}

\* the Steps of the paths: a, " a-b ", b, a with a Condition, no Name
SeqSteps ==
    {Step(Elem(NameA), FALSE), Step(Elem(Padded(NameAB)), FALSE),
     Step(Elem(NameB), FALSE), Step(Elem(NameA), TRUE), Step(NoElem, FALSE)}

FixedRun == <<Step(Elem(NameA), FALSE), Step(Elem(NameA), FALSE)>>

\* the endpoint document around the path p: a PreFlow with p as Request, or
\* a named Flow with p as Response before a PostFlow and a PreFlow
SeqDocs(p) ==
    {FlowDoc(<<Container("PreFlow", "", Path(p), NoPath)>>),
     FlowDoc(<<Container("Flow", "f", Path(<<>>), Path(p)),
               Container("PostFlow", "", NoPath, Path(FixedRun)),
               Container("PreFlow", "", Path(FixedRun), NoPath)>>)}

\* the bundle of the detector with these policies and this endpoint document
SeqBundle(pol, d) == Tree(pol, [f \in {DefaultXml} |-> d], EmptyFn, EmptyFn, EmptyFn, {})

InitSeq ==
    /\ \E pol \in SeqPolicies, k \in 0..MaxPathLen :
        \E p \in [1..k -> SeqSteps] :
            \E d \in SeqDocs(p) : src = SeqBundle(pol, d)
    /\ bundle = NewBundle
    /\ parses = ZeroCounts(src)
    /\ result = NoResult
    /\ out = NoClean
    /\ again = NoClean
    /\ run = NoRun

\* one call of find_sequential_js_steps on a new bundle object
DetectOnce == result.calls = 0 /\ FindSequentialJsSteps

SpecSeq == InitSeq /\ [][DetectOnce]_vars

----------------------------------------------------------------------------
(* Claims about the sequence detector *)

\* the Javascript units: parsable policy documents whose root tag is
\* javascript in any case
ScriptingUnits(fs) ==
    {Stem(f) : f \in {g \in DOMAIN fs.policies :
                        fs.policies[g].ok /\ Lower(fs.policies[g].tag) = JavascriptTag}}

\* the Step extends a run
Extends(step, units) ==
    step.name.elem /\ Strip(step.name.text) \in units /\ ~step.cond

\* the maximal runs of length >= 2 of a Step list, as <<first, last>>
MaximalRuns(steps, units) ==
    {r \in (DOMAIN steps) \X (DOMAIN steps) :
        /\ r[1] < r[2]
        /\ \A k \in r[1]..r[2] : Extends(steps[k], units)
        /\ r[1] = 1 \/ ~Extends(steps[r[1] - 1], units)
        /\ r[2] = Len(steps) \/ ~Extends(steps[r[2] + 1], units)}

\* the records of the file whose location is the path tag of container c
RecordsAt(records, file, c, tag) ==
    SelectSeq(records, LAMBDA rec :
        rec.file = file /\ rec.location = <<c.tag, IF c.tag = "Flow" THEN c.name ELSE "", tag>>)

\* the records of one path are its maximal runs, in document order, each
\* with the trimmed names of its Steps in document order
PathAsClaimed(records, file, c, tag, units) ==
    LET path == c[tag]
        recs == RecordsAt(records, file, c, tag)
        runs == MaximalRuns(path.steps, units)
    IN  /\ Len(recs) = Cardinality(runs)
        /\ \A i \in DOMAIN recs :
            \E r \in runs :
                /\ Cardinality({q \in runs : q[1] <= r[1]}) = i
                /\ recs[i].sequence =
                        [k \in 1..(r[2] - r[1] + 1) |-> Strip(path.steps[r[1] + k - 1].name.text)]

\* C7: find_sequential_js_steps emits, for every Request and Response path
\* of every PreFlow, PostFlow and Flow, exactly one record per maximal run of
\* two or more consecutive Steps that name a Javascript unit and carry no
\* Condition, with the names in document order, and no other record.
C7_OneRecordPerMaximalRun ==
    result.calls > 0 =>
        LET doc == src.proxies[DefaultXml]
            units == ScriptingUnits(src)
        IN  /\ \A i \in DOMAIN doc.flows : \A tag \in {"Request", "Response"} :
                    PathAsClaimed(result.sequences, DefaultXml, doc.flows[i], tag, units)
            /\ \A i \in DOMAIN result.sequences :
                    \E j \in DOMAIN doc.flows : \E tag \in {"Request", "Response"} :
                        /\ doc.flows[j][tag].elem
                        /\ result.sequences[i].file = DefaultXml
                        /\ result.sequences[i].location =
                            <<doc.flows[j].tag, IF doc.flows[j].tag = "Flow" THEN doc.flows[j].name ELSE "", tag>>

\* C7 witness: a path with two runs, the first ended by a Step with a
\* Condition and the second by the end of the path, gave two records.
C7_Witness ==
    /\ result.calls > 0
    /\ Len(src.proxies[DefaultXml].flows) = 1
    /\ src.proxies[DefaultXml].flows[1].Request.steps =
            <<Step(Elem(NameA), FALSE), Step(Elem(Padded(NameAB)), FALSE),
              Step(Elem(NameA), TRUE),
              Step(Elem(Padded(NameAB)), FALSE), Step(Elem(NameA), FALSE)>>
    /\ Len(result.sequences) = 2
    /\ result.sequences[1].sequence = <<NameA, NameAB>>
    /\ result.sequences[2].sequence = <<NameAB, NameA>>

----------------------------------------------------------------------------
(* main(): the rule loop over the bundles *)

\* rules_to_run: the dict of parse_rule_arguments, in insertion order
RuleLists ==
    {<< <<"unattached-policy", "report-only">> >>,
     << <<"unattached-policy", "apply-and-report">> >>,
     << <<"sequential-js", "report-only">> >>,
     << <<"unattached-policy", "report-only">>, <<"sequential-js", "report-only">> >>,
     << <<"unattached-policy", "apply-and-report">>, <<"sequential-js", "report-only">> >>,
     << <<"sequential-js", "report-only">>, <<"unattached-policy", "apply-and-report">> >>}

\* an extracted bundle: whether apiproxy/policies is a directory, and whether
\* clean_and_save cannot prepare the destination of its copy
ExtractedBundles == [policies_dir : BOOLEAN, copy_fails : BOOLEAN]

InitMain ==
    /\ src = EmptyTree
    /\ bundle = NewBundle
    /\ parses = EmptyFn
    /\ result = NoResult
    /\ out = NoClean
    /\ again = NoClean
    /\ \E bs \in SeqUpTo(ExtractedBundles, MaxBundles), rules \in RuleLists :
        run = [pc |-> "setup", bundles |-> bs, rules |-> rules, proxy |-> 0,
               executed |-> {}, errors |-> {}, reports |-> {}]

\* main() up to the loop: unzip_proxies and the ProxyBundle objects, inside
\* one try whose handler logs the error and returns
Setup ==
    /\ run.pc = "setup"
    /\ IF run.bundles = <<>>
       THEN run' = [run EXCEPT !.pc = "exit"]
       ELSE IF \E i \in DOMAIN run.bundles : ~run.bundles[i].policies_dir
       THEN \* ProxyBundle.__init__ raises FileNotFoundError in the list comprehension
            run' = [run EXCEPT !.pc = "exit", !.errors = {<<0, "setup">>}]
       ELSE run' = [run EXCEPT !.pc = "loop", !.proxy = 1]
    /\ UNCHANGED <<src, bundle, parses, result, out, again>>

\* the rule raises: run_unattached_policy_rule calls clean_and_save for the
\* variant apply-and-report, which raises when the copy cannot be prepared
RuleRaises(b, rule) ==
    rule[1] = "unattached-policy" /\ rule[2] = "apply-and-report" /\ b.copy_fails

\* one iteration of "for proxy in proxy_objects": every rule in a try of its own
ProcessProxy ==
    /\ run.pc = "loop"
    /\ run.proxy <= Len(run.bundles)
    /\ LET i == run.proxy
           b == run.bundles[i]
           ran == {k \in DOMAIN run.rules : ~RuleRaises(b, run.rules[k])}
           failed == DOMAIN run.rules \ ran
       IN  run' = [run EXCEPT
                    !.proxy = i + 1,
                    !.executed = @ \cup {<<i, run.rules[k][1]>> : k \in ran},
                    !.errors = @ \cup {<<i, run.rules[k][1]>> : k \in failed}]
    /\ UNCHANGED <<src, bundle, parses, result, out, again>>

\* the final report generation after the loop
WriteReports ==
    /\ run.pc = "loop"
    /\ run.proxy > Len(run.bundles)
    /\ run' = [run EXCEPT !.pc = "exit", !.reports = {run.rules[k][1] : k \in DOMAIN run.rules}]
    /\ UNCHANGED <<src, bundle, parses, result, out, again>>

NextMain == Setup \/ ProcessProxy \/ WriteReports

SpecMain == InitMain /\ [][NextMain]_vars

\* C6: a missing policies directory or a copy-destination failure stops only
\* the bundle it occurs in: when main() ends, every rule was executed on
\* every other bundle and its report was written.
C6_FailureIsPerBundle ==
    run.pc = "exit" =>
        \A i \in DOMAIN run.bundles :
            (run.bundles[i].policies_dir /\ ~run.bundles[i].copy_fails) =>
                \A k \in DOMAIN run.rules :
                    /\ <<i, run.rules[k][1]>> \in run.executed
                    /\ run.rules[k][1] \in run.reports

====
